---- MODULE Spec2Model ----
(***************************************************************************)
(* BurnDevice: the destruction execution subsystem.                        *)
(*   internal/server (Server.ExecuteDestruction, Server.StreamDestruction, *)
(*   the server-layer validators) and internal/engine/destructor.go        *)
(*   (DestructionEngine: validators, task registry, file-deletion and      *)
(*   basic strategies, streaming events, safeDeletion, copyFile).          *)
(*                                                                         *)
(* Strings are sequences of one-character strings; a path is such a        *)
(* sequence.  The filesystem maps cleaned absolute paths to nodes.         *)
(***************************************************************************)
EXTENDS Integers, Sequences, FiniteSets, TLC

\* ---------------------------------------------------------------- bounds
MaxTargets == 2      \* longest target list of a request
NumReqs == 2         \* goroutines handling requests at the same time

\* ------------------------------------------------------- strings and paths
\* strings.HasPrefix(s, p)
HasPrefix(s, p) == Len(p) <= Len(s) /\ SubSeq(s, 1, Len(p)) = p

\* strings.Contains(s, sub)
Contains(s, sub) ==
    \E k \in 0..(Len(s) - Len(sub)) : SubSeq(s, k + 1, k + Len(sub)) = sub

\* the elements of a path between its separators (empty elements included)
RECURSIVE SplitPath(_)
SplitPath(s) ==
    IF \A k \in 1..Len(s) : s[k] # "/" THEN <<s>>
    ELSE LET k == CHOOSE j \in 1..Len(s) :
                      s[j] = "/" /\ \A m \in 1..(j - 1) : s[m] # "/"
         IN  <<SubSeq(s, 1, k - 1)>> \o SplitPath(SubSeq(s, k + 1, Len(s)))

\* the lexical processing of filepath.Clean on the elements of a path
RECURSIVE CleanElems(_, _, _)
CleanElems(elems, out, rooted) ==
    IF elems = <<>> THEN out
    ELSE LET e == Head(elems)
             rest == Tail(elems)
         IN  IF e = <<>> \/ e = <<".">> THEN CleanElems(rest, out, rooted)
             ELSE IF e = <<".", ".">>
                  THEN IF out # <<>> /\ out[Len(out)] # <<".", ".">>
                       THEN CleanElems(rest, SubSeq(out, 1, Len(out) - 1), rooted)
                       ELSE IF rooted THEN CleanElems(rest, out, rooted)
                            ELSE CleanElems(rest, Append(out, e), rooted)
                  ELSE CleanElems(rest, Append(out, e), rooted)

RECURSIVE JoinElems(_)
JoinElems(elems) ==
    IF elems = <<>> THEN <<>>
    ELSE IF Len(elems) = 1 THEN elems[1]
    ELSE elems[1] \o <<"/">> \o JoinElems(Tail(elems))

\* filepath.IsAbs on unix
IsAbs(p) == Len(p) > 0 /\ p[1] = "/"

\* filepath.Clean
Clean(p) ==
    IF p = <<>> THEN <<".">>
    ELSE LET rooted == IsAbs(p)
             body == JoinElems(CleanElems(SplitPath(p), <<>>, rooted))
         IN  IF rooted THEN <<"/">> \o body
             ELSE IF body = <<>> THEN <<".">> ELSE body

\* the working directory of the process (os.Getwd inside filepath.Abs)
Cwd == <<"/", "w">>

\* filepath.Abs: Clean of an absolute path, else Join(cwd, path)
Abs(p) == IF IsAbs(p) THEN Clean(p) ELSE Clean(Cwd \o <<"/">> \o p)

\* ".burndevice.backup": a dot and the rest of the suffix as one letter
BackupSuffix == <<".", "b">>

\* ------------------------------------------------------------ the inputs
\* targets a caller may name
TX  == <<"/", "t", "/", "x">>
TXB == TX \o BackupSuffix
TK  == <<"/", "t", "/", "k", "/", "f">>
TU  == <<"/", "t", "/", ".", ".", "/", "e", "/", "p">>
TD  == <<"/", "t", "/", "d">>
TR  == <<"x">>
TE  == <<"/", "e", "/", "p">>
TargetUniverse == {TX, TXB, TK, TU, TD, TR, TE}

RECURSIVE SeqsUpTo(_, _)
SeqsUpTo(S, n) ==
    IF n = 0 THEN {<<>>}
    ELSE LET shorter == SeqsUpTo(S, n - 1)
         IN  shorter \cup {Append(q, x) : q \in shorter, x \in S}

TargetLists == SeqsUpTo(TargetUniverse, MaxTargets)

\* pb.DestructionType
DESTRUCTION_TYPE_FILE_DELETION == 1
DESTRUCTION_TYPE_UNSPECIFIED == 0
DESTRUCTION_TYPE_SERVICE_TERMINATION == 3
DESTRUCTION_TYPE_KERNEL_PANIC == 8
\* the categories requests are drawn from: file deletion, and three of those
\* that the switch sends to its default branch
DestructionTypes ==
    {DESTRUCTION_TYPE_UNSPECIFIED, DESTRUCTION_TYPE_FILE_DELETION,
     DESTRUCTION_TYPE_SERVICE_TERMINATION, DESTRUCTION_TYPE_KERNEL_PANIC}

\* pb.DestructionSeverity
DESTRUCTION_SEVERITY_LOW == 1
DESTRUCTION_SEVERITY_MEDIUM == 2
DESTRUCTION_SEVERITY_HIGH == 3
DESTRUCTION_SEVERITY_CRITICAL == 4
Severities == 0..4

\* pb.ExecuteDestructionRequest / pb.StreamDestructionRequest
Requests ==
    [type : DestructionTypes, targets : TargetLists, severity : Severities,
     confirm : BOOLEAN, ai_scenario_id : {"", "scn"}]

MaxSeverityStrings == {"LOW", "MEDIUM", "HIGH", "CRITICAL", "", "low"}

\* config.Config{} as the tests build it: the zero value
ZeroConfig ==
    [RequireConfirmation |-> FALSE, MaxSeverity |-> "",
     AllowedTargets |-> <<>>, BlockedTargets |-> <<>>, AuditLog |-> FALSE]

\* setDefaults: confirmation required, ceiling MEDIUM, audit log on, no
\* allow-list, and a block list that begins with "/"
DefaultConfig ==
    [RequireConfirmation |-> TRUE, MaxSeverity |-> "MEDIUM",
     AllowedTargets |-> <<>>,
     BlockedTargets |-> << <<"/">>, <<"/", "e">> >>, AuditLog |-> TRUE]

\* an allow-list and a block list below it, with every confirmation flag
\* and every ceiling string
ListedConfigs ==
    { [RequireConfirmation |-> rc, MaxSeverity |-> ms,
       AllowedTargets |-> << <<"/", "t">> >>,
       BlockedTargets |-> << <<"/", "e">>, <<"/", "t", "/", "k">> >>,
       AuditLog |-> TRUE] :
      rc \in BOOLEAN, ms \in MaxSeverityStrings }

\* config.example.yaml: the default block list with an allow-list
ExampleConfig ==
    [RequireConfirmation |-> TRUE, MaxSeverity |-> "MEDIUM",
     AllowedTargets |-> << <<"/", "t">> >>,
     BlockedTargets |-> << <<"/">>, <<"/", "e">> >>, AuditLog |-> TRUE]

Configs == {ZeroConfig, DefaultConfig, ExampleConfig} \cup ListedConfigs

\* ----------------------------------------------------------- filesystem
Absent == [kind |-> "absent", data |-> <<>>]
Dir == [kind |-> "dir", data |-> <<>>]
File(d) == [kind |-> "file", data |-> d]

FsPaths ==
    {Abs(t) : t \in TargetUniverse}
        \cup {Abs(t \o BackupSuffix) : t \in TargetUniverse}

InitialFs ==
    [p \in FsPaths |->
        IF p = TX THEN File(<<7, 8>>)
        ELSE IF p = TK THEN File(<<6>>)
        ELSE IF p = Abs(TU) THEN File(<<9>>)
        ELSE IF p = Abs(TR) THEN File(<<5>>)
        ELSE IF p = TD THEN Dir
        ELSE Absent]

\* ---------------------------------------------------------------- state
Slots == 1..NumReqs
NoTask == [id |-> -1, status |-> "none", ctx |-> "none"]
NoMessage == [parts |-> <<>>, target |-> <<>>, send |-> 0]
NoResponse == [kind |-> "none", success |-> FALSE, message |-> NoMessage,
               results |-> <<>>]

VARIABLES
    cfg,        \* engine.config / server.config, read-only after construction
    fs,         \* the filesystem: cleaned absolute path -> node
    running,    \* DestructionEngine.running: task id -> slot of its task, or 0
    lastNano,   \* the latest reading of time.Now().UnixNano()
    audit,      \* the records written by Server.auditLog
    pc,         \* per slot: the position of the goroutine handling a request
    req,        \* per slot: entry point and the request message
    task,       \* per slot: the DestructionTask (id, status)
    idx,        \* per slot: the loop variable i of the per-target loop
    results,    \* per slot: the results slice of the strategy
    err,        \* per slot: the err of the strategy (a message, or NoMessage)
    local,      \* per slot: safeDeletion / copyFile locals of the current target
    events,     \* per slot: every stream.Send attempted, with its outcome
    ops,        \* per slot: every filesystem call made, with its outcome
    resp,       \* per slot: what the caller received
    regs        \* per slot: how its task entered and left the registry

vars == <<cfg, fs, running, lastNano, audit, pc, req, task, idx, results, err,
          local, events, ops, resp, regs>>

\* ------------------------------------------------------------- messages
Msg(parts, target) == [parts |-> parts, target |-> target, send |-> 0]
\* the error returned by the k-th stream.Send of a call
SendErr(k) == [parts |-> <<"transport is closing">>, target |-> <<>>, send |-> k]
Wrap(prefix, m) == [m EXCEPT !.parts = <<prefix>> \o @]
IsErr(m) == m # NoMessage
Mentions(m, phrase) == \E k \in 1..Len(m.parts) : m.parts[k] = phrase

\* the message texts that hold the word "blocked"
BlockedTexts == {"target is blocked: ", "Target is in blocked list",
                 "access to blocked path is not allowed"}
MentionsBlocked(m) == \E k \in 1..Len(m.parts) : m.parts[k] \in BlockedTexts
MentionsConfirm(m) == Mentions(m, "destruction must be confirmed")

\* ----------------------------------------------------- engine validators
\* the block list matched by equality instead of by prefix
isBlockedTarget_Exact(target) ==
    \E k \in 1..Len(cfg.BlockedTargets) : target = cfg.BlockedTargets[k]

\* a blocked entry matched as a directory: the entry itself, or the entry
\* followed by a separator
isBlockedTarget_ComponentWise(target) ==
    \E k \in 1..Len(cfg.BlockedTargets) :
        \/ target = cfg.BlockedTargets[k]
        \/ HasPrefix(target, cfg.BlockedTargets[k] \o <<"/">>)

\* DestructionEngine.isBlockedTarget
isBlockedTarget(target) ==
    \E k \in 1..Len(cfg.BlockedTargets) : HasPrefix(target, cfg.BlockedTargets[k])

\* DestructionEngine.isAllowedTarget
isAllowedTarget(target) ==
    \E k \in 1..Len(cfg.AllowedTargets) : HasPrefix(target, cfg.AllowedTargets[k])

\* an unrecognized ceiling read as the highest one
getSeverityLevel_DefaultCritical(severity) ==
    CASE severity = "LOW" -> DESTRUCTION_SEVERITY_LOW
      [] severity = "MEDIUM" -> DESTRUCTION_SEVERITY_MEDIUM
      [] severity = "HIGH" -> DESTRUCTION_SEVERITY_HIGH
      [] OTHER -> DESTRUCTION_SEVERITY_CRITICAL

\* DestructionEngine.getSeverityLevel
getSeverityLevel(severity) ==
    CASE severity = "LOW" -> DESTRUCTION_SEVERITY_LOW
      [] severity = "MEDIUM" -> DESTRUCTION_SEVERITY_MEDIUM
      [] severity = "HIGH" -> DESTRUCTION_SEVERITY_HIGH
      [] severity = "CRITICAL" -> DESTRUCTION_SEVERITY_CRITICAL
      [] OTHER -> DESTRUCTION_SEVERITY_LOW

\* the allow-list consulted before the block list
TargetCheck_AllowFirst(target) ==
    IF Len(cfg.AllowedTargets) > 0 /\ ~isAllowedTarget(target)
    THEN Msg(<<"target is not in allowed list: ">>, target)
    ELSE IF isBlockedTarget(target) THEN Msg(<<"target is blocked: ">>, target)
         ELSE NoMessage

\* the check of one target inside the validators' loop
TargetCheck(target) ==
    IF isBlockedTarget(target) THEN Msg(<<"target is blocked: ">>, target)
    ELSE IF Len(cfg.AllowedTargets) > 0 /\ ~isAllowedTarget(target)
         THEN Msg(<<"target is not in allowed list: ">>, target)
         ELSE NoMessage

\* the validators' loop over req.Targets: the first error, or none
RECURSIVE TargetsCheck(_)
TargetsCheck(targets) ==
    IF targets = <<>> THEN NoMessage
    ELSE IF IsErr(TargetCheck(Head(targets))) THEN TargetCheck(Head(targets))
         ELSE TargetsCheck(Tail(targets))

\* DestructionEngine.validateExecuteRequest
validateExecuteRequest(r) ==
    IF ~r.confirm /\ cfg.RequireConfirmation
    THEN Msg(<<"destruction must be confirmed">>, <<>>)
    ELSE IF r.severity > getSeverityLevel(cfg.MaxSeverity)
         THEN Msg(<<"requested severity exceeds maximum allowed (",
                    cfg.MaxSeverity, ")">>, <<>>)
         ELSE TargetsCheck(r.targets)

\* a validator that lets a request carrying a scenario id through
validateStreamRequest_ScenarioBypass(r) ==
    IF r.ai_scenario_id # "" THEN NoMessage
    ELSE IF ~r.confirm /\ cfg.RequireConfirmation
    THEN Msg(<<"destruction must be confirmed">>, <<>>)
    ELSE IF r.severity > getSeverityLevel(cfg.MaxSeverity)
         THEN Msg(<<"requested severity exceeds maximum allowed (",
                    cfg.MaxSeverity, ")">>, <<>>)
         ELSE TargetsCheck(r.targets)

\* DestructionEngine.validateStreamRequest
validateStreamRequest(r) ==
    IF ~r.confirm /\ cfg.RequireConfirmation
    THEN Msg(<<"destruction must be confirmed">>, <<>>)
    ELSE IF r.severity > getSeverityLevel(cfg.MaxSeverity)
         THEN Msg(<<"requested severity exceeds maximum allowed (",
                    cfg.MaxSeverity, ")">>, <<>>)
         ELSE TargetsCheck(r.targets)

\* ----------------------------------------------------- server validators
\* the longer-prefix test alone, a target equal to a blocked entry let through
s_isBlockedTarget_LongerOnly(target) ==
    \E k \in 1..Len(cfg.BlockedTargets) :
        LET blocked == cfg.BlockedTargets[k]
        IN  Len(target) > Len(blocked)
            /\ SubSeq(target, 1, Len(blocked)) = blocked

\* Server.isBlockedTarget: equality, or longer with the same leading bytes
s_isBlockedTarget(target) ==
    \E k \in 1..Len(cfg.BlockedTargets) :
        LET blocked == cfg.BlockedTargets[k]
        IN  target = blocked
            \/ (Len(target) > Len(blocked)
                /\ SubSeq(target, 1, Len(blocked)) = blocked)

\* Server.isAllowedTarget
s_isAllowedTarget(target) ==
    \E k \in 1..Len(cfg.AllowedTargets) :
        LET allowed == cfg.AllowedTargets[k]
        IN  target = allowed
            \/ (Len(target) > Len(allowed)
                /\ SubSeq(target, 1, Len(allowed)) = allowed)

\* Server.getSeverityLevel
s_getSeverityLevel(severity) ==
    CASE severity = "LOW" -> DESTRUCTION_SEVERITY_LOW
      [] severity = "MEDIUM" -> DESTRUCTION_SEVERITY_MEDIUM
      [] severity = "HIGH" -> DESTRUCTION_SEVERITY_HIGH
      [] severity = "CRITICAL" -> DESTRUCTION_SEVERITY_CRITICAL
      [] OTHER -> DESTRUCTION_SEVERITY_LOW

s_TargetCheck(target) ==
    IF s_isBlockedTarget(target) THEN Msg(<<"target is blocked: ">>, target)
    ELSE IF Len(cfg.AllowedTargets) > 0 /\ ~s_isAllowedTarget(target)
         THEN Msg(<<"target is not in allowed list: ">>, target)
         ELSE NoMessage

RECURSIVE s_TargetsCheck(_)
s_TargetsCheck(targets) ==
    IF targets = <<>> THEN NoMessage
    ELSE IF IsErr(s_TargetCheck(Head(targets))) THEN s_TargetCheck(Head(targets))
         ELSE s_TargetsCheck(Tail(targets))

\* Server.validateDestructionRequest
validateDestructionRequest(r) ==
    IF cfg.RequireConfirmation /\ ~r.confirm
    THEN Msg(<<"destruction must be confirmed">>, <<>>)
    ELSE IF r.severity > s_getSeverityLevel(cfg.MaxSeverity)
         THEN Msg(<<"requested severity exceeds maximum allowed (",
                    cfg.MaxSeverity, ")">>, <<>>)
         ELSE s_TargetsCheck(r.targets)

\* Server.validateStreamDestructionRequest
validateStreamDestructionRequest(r) ==
    IF cfg.RequireConfirmation /\ ~r.confirm
    THEN Msg(<<"destruction must be confirmed">>, <<>>)
    ELSE IF r.severity > s_getSeverityLevel(cfg.MaxSeverity)
         THEN Msg(<<"requested severity exceeds maximum allowed (",
                    cfg.MaxSeverity, ")">>, <<>>)
         ELSE s_TargetsCheck(r.targets)

\* ------------------------------------------------------------ the engine
NoLocal == [size |-> 0, src |-> <<>>, files_deleted |-> 0, bytes_destroyed |-> 0]
NoRegs == [registered |-> FALSE, removed |-> 0]
TaskIds == 1..NumReqs

\* generateTaskID: "task_" and the clock reading.  Time never runs backwards
\* between two readings; a reading may equal the one before it.
generateTaskID ==
    IF lastNano = 0 THEN {1}
    ELSE {t \in {lastNano, lastNano + 1} : t \in TaskIds}

\* pb.DestructionResult with its pb.DestructionMetrics
Result(target, e, m) ==
    [target |-> target, success |-> ~IsErr(e), error_message |-> e,
     files_deleted |-> m.files_deleted, bytes_destroyed |-> m.bytes_destroyed,
     fixed_time |-> FALSE]

Target(r) == req[r].targets[idx[r] + 1]
NumTargets(r) == Len(req[r].targets)
BackupPath(target) == target \o BackupSuffix

Log(log, r, e) == [log EXCEPT ![r] = Append(@, e)]
FsOp(r, op, path, ok) ==
    [op |-> op, path |-> path, ok |-> ok, i |-> idx[r],
     data |-> IF op = "open" /\ ok THEN fs[path].data ELSE <<>>]
Event(type, target, num, den, n, ok) ==
    [type |-> type, target |-> target, num |-> num, den |-> den, n |-> n,
     ok |-> ok]

\* what every entry point sets when a request is taken up
Accept(r, entry, q) ==
    req' = [req EXCEPT ![r] = [entry |-> entry, type |-> q.type,
                               targets |-> q.targets, severity |-> q.severity,
                               confirm |-> q.confirm]]

Response(kind, success, message, res) ==
    [kind |-> kind, success |-> success, message |-> message, results |-> res]

Return(r, kind, success, message, res) ==
    /\ resp' = [resp EXCEPT ![r] = Response(kind, success, message, res)]
    /\ pc' = [pc EXCEPT ![r] = "done"]

\* the response without the validator's reason
ValidationFailed_NoReason(v) ==
    Response("response", FALSE, Msg(<<"Validation failed">>, <<>>), <<>>)

\* Server.ExecuteDestruction: the response to a request its validator rejects
ValidationFailed(v) ==
    Response("response", FALSE, Wrap("Validation failed: ", v), <<>>)

\* Server.ExecuteDestruction: the response when the engine returns an error
ExecutionFailed(e) ==
    Response("response", FALSE, Wrap("Execution failed: ", e), <<>>)

\* Server.ExecuteDestruction up to the creation of the task inside
\* DestructionEngine.ExecuteDestruction
ExecuteDestruction(r, q) ==
    /\ pc[r] = "idle"
    /\ Accept(r, "execute", q)
    /\ LET v == validateDestructionRequest(q)
           w == validateExecuteRequest(q)
       IN  IF IsErr(v)
           THEN /\ resp' = [resp EXCEPT ![r] = ValidationFailed(v)]
                /\ pc' = [pc EXCEPT ![r] = "done"]
                /\ UNCHANGED <<task, lastNano>>
           ELSE IF IsErr(w)
           THEN /\ resp' = [resp EXCEPT ![r] =
                               ExecutionFailed(Wrap("validation failed: ", w))]
                /\ pc' = [pc EXCEPT ![r] = "done"]
                /\ UNCHANGED <<task, lastNano>>
           ELSE /\ \E t \in generateTaskID :
                      /\ task' = [task EXCEPT ![r] = [id |-> t, status |-> "running", ctx |-> "live"]]
                      /\ lastNano' = t
                /\ pc' = [pc EXCEPT ![r] = "register"]
                /\ UNCHANGED resp
    /\ UNCHANGED <<cfg, fs, running, audit, idx, results, err, local, events,
                   ops, regs>>

\* e.running[task.ID] = task, under e.mu
Register(r) ==
    /\ pc[r] = "register"
    /\ running' = [running EXCEPT ![task[r].id] = r]
    /\ regs' = [regs EXCEPT ![r].registered = TRUE]
    /\ pc' = [pc EXCEPT ![r] = "dispatch"]
    /\ UNCHANGED <<cfg, fs, lastNano, audit, req, task, idx, results, err,
                   local, events, ops, resp>>

\* executeBasicDestruction: one aggregate result, its target the targets
\* joined by commas
JoinTargets(targets) ==
    IF targets = <<>> THEN <<>>
    ELSE LET JoinFrom[k \in 1..Len(targets)] ==
                 IF k = Len(targets) THEN targets[k]
                 ELSE targets[k] \o <<",">> \o JoinFrom[k + 1]
         IN  JoinFrom[1]

executeBasicDestruction_PerTarget(targets) ==
    [k \in 1..Len(targets) |->
        [target |-> targets[k], success |-> TRUE,
         error_message |-> NoMessage, files_deleted |-> 0,
         bytes_destroyed |-> 0, fixed_time |-> TRUE]]

executeBasicDestruction(targets) ==
    << [target |-> JoinTargets(targets), success |-> TRUE,
        error_message |-> NoMessage, files_deleted |-> 0,
        bytes_destroyed |-> 0, fixed_time |-> TRUE] >>

\* switch req.Type in ExecuteDestruction and StreamDestruction
Dispatch(r) ==
    /\ pc[r] = "dispatch"
    /\ IF req[r].type = DESTRUCTION_TYPE_FILE_DELETION
       THEN /\ pc' = [pc EXCEPT ![r] = "loop"]
            /\ UNCHANGED results
       ELSE /\ results' = [results EXCEPT ![r] = executeBasicDestruction(req[r].targets)]
            /\ pc' = [pc EXCEPT ![r] = "finish"]
    /\ UNCHANGED <<cfg, fs, running, lastNano, audit, req, task, idx, err,
                   local, events, ops, resp, regs>>

\* a loop that ends at the first failed target
LoopHead_StopOnFailure(r) ==
    /\ pc[r] = "loop"
    /\ pc' = [pc EXCEPT ![r] =
                IF idx[r] >= NumTargets(r)
                   \/ (results[r] # <<>>
                       /\ ~results[r][Len(results[r])].success)
                THEN "finish"
                ELSE IF req[r].entry = "stream" THEN "send_before"
                ELSE "check"]
    /\ local' = [local EXCEPT ![r] = NoLocal]
    /\ UNCHANGED <<cfg, fs, running, lastNano, audit, req, task, idx, results,
                   err, events, ops, resp, regs>>

\* for ..., target := range task.Targets
LoopHead(r) ==
    /\ pc[r] = "loop"
    /\ pc' = [pc EXCEPT ![r] =
                IF idx[r] >= NumTargets(r) THEN "finish"
                ELSE IF req[r].entry = "stream" THEN "send_before"
                ELSE "check"]
    /\ local' = [local EXCEPT ![r] = NoLocal]
    /\ UNCHANGED <<cfg, fs, running, lastNano, audit, req, task, idx, results,
                   err, events, ops, resp, regs>>

\* a failed target goes to the next one without its second progress event
FinishTarget_SkipAfterOnFailure(r, e, m) ==
    /\ results' = [results EXCEPT ![r] = Append(@, Result(Target(r), e, m))]
    /\ IF req[r].entry = "stream" /\ ~IsErr(e)
       THEN /\ pc' = [pc EXCEPT ![r] = "send_after"]
            /\ UNCHANGED idx
       ELSE /\ pc' = [pc EXCEPT ![r] = "loop"]
            /\ idx' = [idx EXCEPT ![r] = @ + 1]

\* the end of one iteration: the result is appended; the streaming strategy
\* goes on to the target's second progress event
FinishTarget(r, e, m) ==
    /\ results' = [results EXCEPT ![r] = Append(@, Result(Target(r), e, m))]
    /\ IF req[r].entry = "stream"
       THEN /\ pc' = [pc EXCEPT ![r] = "send_after"]
            /\ UNCHANGED idx
       ELSE /\ pc' = [pc EXCEPT ![r] = "loop"]
            /\ idx' = [idx EXCEPT ![r] = @ + 1]

\* if e.isBlockedTarget(target) { ...; continue }
CheckBlocked(r) ==
    /\ pc[r] = "check"
    /\ IF isBlockedTarget(Target(r))
       THEN /\ results' = [results EXCEPT ![r] =
                  Append(@, Result(Target(r),
                                   Msg(<<"Target is in blocked list">>, <<>>),
                                   NoLocal))]
            /\ idx' = [idx EXCEPT ![r] = @ + 1]
            /\ pc' = [pc EXCEPT ![r] = "loop"]
       ELSE /\ pc' = [pc EXCEPT ![r] = "stat"]
            /\ UNCHANGED <<results, idx>>
    /\ UNCHANGED <<cfg, fs, running, lastNano, audit, req, task, err, local,
                   events, ops, resp, regs>>

\* ---------------------------------------------- safeDeletion and copyFile
Metrics(r) == [files_deleted |-> local[r].files_deleted,
               bytes_destroyed |-> local[r].bytes_destroyed]

\* info, err := os.Stat(target); info.IsDir()
Stat(r) ==
    /\ pc[r] = "stat"
    /\ LET p == Abs(Target(r))
       IN  /\ ops' = Log(ops, r, FsOp(r, "stat", p, fs[p].kind # "absent"))
           /\ IF fs[p].kind = "absent"
              THEN /\ FinishTarget(r, Msg(<<"failed to stat file: ",
                                           "no such file or directory">>, <<>>),
                                   Metrics(r))
                   /\ UNCHANGED local
              ELSE IF fs[p].kind = "dir"
              THEN /\ FinishTarget(r, Msg(<<"target is a directory, not supported in safe mode">>,
                                          <<>>), Metrics(r))
                   /\ UNCHANGED local
              ELSE /\ local' = [local EXCEPT ![r].size = Len(fs[p].data)]
                   /\ pc' = [pc EXCEPT ![r] = "open"]
                   /\ UNCHANGED <<results, idx>>
    /\ UNCHANGED <<cfg, fs, running, lastNano, audit, req, task, err, events,
                   resp, regs>>

\* the traversal check alone, the lists not consulted again
copyFileChecks_NoRecheck(src, dst) ==
    IF Contains(Clean(src), <<".", ".">>) \/ Contains(Clean(dst), <<".", ".">>)
    THEN Msg(<<"path traversal detected in file paths">>, <<>>)
    ELSE NoMessage

\* the checks of copyFile on the cleaned and the absolute paths, before it
\* opens anything: the error, or none
copyFileChecks(src, dst) ==
    IF Contains(Clean(src), <<".", ".">>) \/ Contains(Clean(dst), <<".", ".">>)
    THEN Msg(<<"path traversal detected in file paths">>, <<>>)
    ELSE IF isBlockedTarget(Abs(Clean(src))) \/ isBlockedTarget(Abs(Clean(dst)))
    THEN Msg(<<"access to blocked path is not allowed">>, <<>>)
    ELSE IF Len(cfg.AllowedTargets) > 0
            /\ (~isAllowedTarget(Abs(Clean(src))) \/ ~isAllowedTarget(Abs(Clean(dst))))
    THEN Msg(<<"paths are not within allowed target directories">>, <<>>)
    ELSE NoMessage

BackupFailed(m) == Wrap("failed to create backup: ", m)

\* copyFile up to sourceFile, err := os.Open(absSrc)
CopyOpen(r) ==
    /\ pc[r] = "open"
    /\ LET src == Target(r)
           dst == BackupPath(Target(r))
           chk == copyFileChecks(src, dst)
           p == Abs(Clean(src))
       IN  IF IsErr(chk)
           THEN /\ FinishTarget(r, BackupFailed(chk), Metrics(r))
                /\ UNCHANGED <<ops, local>>
           ELSE \E ioerr \in BOOLEAN :
                  LET ok == fs[p].kind # "absent" /\ ~ioerr
                  IN  /\ ops' = Log(ops, r, FsOp(r, "open", p, ok))
                      /\ IF ok
                         THEN /\ local' = [local EXCEPT ![r].src = fs[p].data]
                              /\ pc' = [pc EXCEPT ![r] = "create"]
                              /\ UNCHANGED <<results, idx>>
                         ELSE /\ FinishTarget(r,
                                     BackupFailed(Msg(<<"failed to open source file: ">>, <<>>)),
                                     Metrics(r))
                              /\ UNCHANGED local
    /\ UNCHANGED <<cfg, fs, running, lastNano, audit, req, task, err, events,
                   resp, regs>>

\* a create that leaves the bytes of an existing file in place
CopyCreate_NoTruncate(r) ==
    /\ pc[r] = "create"
    /\ LET d == Abs(Clean(BackupPath(Target(r))))
       IN  \E ioerr \in BOOLEAN :
             LET ok == fs[d].kind # "dir" /\ ~ioerr
             IN  /\ ops' = Log(ops, r, FsOp(r, "create", d, ok))
                 /\ IF ok
                    THEN /\ fs' = IF fs[d].kind = "file" THEN fs
                                  ELSE [fs EXCEPT ![d] = File(<<>>)]
                         /\ pc' = [pc EXCEPT ![r] = "copy"]
                         /\ UNCHANGED <<results, idx>>
                    ELSE /\ FinishTarget(r,
                                BackupFailed(Msg(<<"failed to create destination file: ">>, <<>>)),
                                Metrics(r))
                         /\ UNCHANGED fs
    /\ UNCHANGED <<cfg, running, lastNano, audit, req, task, err, local,
                   events, resp, regs>>

\* destFile, err := os.Create(absDst): creates the file or truncates it
CopyCreate(r) ==
    /\ pc[r] = "create"
    /\ LET d == Abs(Clean(BackupPath(Target(r))))
       IN  \E ioerr \in BOOLEAN :
             LET ok == fs[d].kind # "dir" /\ ~ioerr
             IN  /\ ops' = Log(ops, r, FsOp(r, "create", d, ok))
                 /\ IF ok
                    THEN /\ fs' = [fs EXCEPT ![d] = File(<<>>)]
                         /\ pc' = [pc EXCEPT ![r] = "copy"]
                         /\ UNCHANGED <<results, idx>>
                    ELSE /\ FinishTarget(r,
                                BackupFailed(Msg(<<"failed to create destination file: ">>, <<>>)),
                                Metrics(r))
                         /\ UNCHANGED fs
    /\ UNCHANGED <<cfg, running, lastNano, audit, req, task, err, local,
                   events, resp, regs>>

\* what the open source file yields: the file's bytes, those it had when it
\* was opened if it was unlinked since
SourceData(r) ==
    LET p == Abs(Clean(Target(r)))
    IN  IF fs[p].kind = "file" THEN fs[p].data ELSE local[r].src

\* what a file holds after bytes were written to it from its beginning: the
\* written bytes, then what it held beyond them (a write does not truncate)
Overwrite(old, new) == new \o SubSeq(old, Len(new) + 1, Len(old))

\* safeDeletion going on to os.Remove although copyFile returned an error
CopyData_IgnoreError(r) ==
    /\ pc[r] = "copy"
    /\ LET d == Abs(Clean(BackupPath(Target(r))))
       IN  \E n \in 0..Len(SourceData(r)) :
             /\ ops' = Log(ops, r, FsOp(r, "copy", d, n = Len(SourceData(r))))
             /\ fs' = IF fs[d].kind = "file"
                      THEN [fs EXCEPT ![d] =
                               File(Overwrite(@.data, SubSeq(SourceData(r), 1, n)))]
                      ELSE fs
    /\ local' = [local EXCEPT ![r].bytes_destroyed = local[r].size,
                              ![r].files_deleted = 1]
    /\ pc' = [pc EXCEPT ![r] = "remove"]
    /\ UNCHANGED <<cfg, running, lastNano, audit, req, task, idx, results, err,
                   events, resp, regs>>

\* _, err = io.Copy(destFile, sourceFile); then, in safeDeletion, the metrics
CopyData(r) ==
    /\ pc[r] = "copy"
    /\ LET d == Abs(Clean(BackupPath(Target(r))))
           data == SourceData(r)
       IN  \/ /\ ops' = Log(ops, r, FsOp(r, "copy", d, TRUE))
              /\ fs' = IF fs[d].kind = "file"
                       THEN [fs EXCEPT ![d] = File(Overwrite(@.data, data))]
                       ELSE fs
              /\ local' = [local EXCEPT ![r].bytes_destroyed = local[r].size,
                                        ![r].files_deleted = 1]
              /\ pc' = [pc EXCEPT ![r] = "remove"]
              /\ UNCHANGED <<results, idx>>
           \/ \E n \in 0..(Len(data) - 1) :
                /\ ops' = Log(ops, r, FsOp(r, "copy", d, FALSE))
                /\ fs' = IF fs[d].kind = "file"
                         THEN [fs EXCEPT ![d] =
                                  File(Overwrite(@.data, SubSeq(data, 1, n)))]
                         ELSE fs
                /\ FinishTarget(r,
                       BackupFailed(Msg(<<"failed to copy file content: ">>, <<>>)),
                       Metrics(r))
                /\ UNCHANGED local
    /\ UNCHANGED <<cfg, running, lastNano, audit, req, task, err, events,
                   resp, regs>>

\* a failed removal reported with metrics of zero
Remove_MetricsOnSuccess(r) ==
    /\ pc[r] = "remove"
    /\ LET p == Abs(Target(r))
       IN  \E ioerr \in BOOLEAN :
             LET ok == fs[p].kind # "absent" /\ ~ioerr
             IN  /\ ops' = Log(ops, r, FsOp(r, "remove", p, ok))
                 /\ fs' = IF ok THEN [fs EXCEPT ![p] = Absent] ELSE fs
                 /\ FinishTarget(r,
                        IF ok THEN NoMessage
                        ELSE Msg(<<"failed to remove file: ">>, <<>>),
                        IF ok THEN Metrics(r) ELSE NoLocal)
    /\ UNCHANGED <<cfg, running, lastNano, audit, req, task, err, local,
                   events, resp, regs>>

\* os.Remove(target), the end of safeDeletion
Remove(r) ==
    /\ pc[r] = "remove"
    /\ LET p == Abs(Target(r))
       IN  \E ioerr \in BOOLEAN :
             LET ok == fs[p].kind # "absent" /\ ~ioerr
             IN  /\ ops' = Log(ops, r, FsOp(r, "remove", p, ok))
                 /\ fs' = IF ok THEN [fs EXCEPT ![p] = Absent] ELSE fs
                 /\ FinishTarget(r,
                        IF ok THEN NoMessage
                        ELSE Msg(<<"failed to remove file: ">>, <<>>),
                        Metrics(r))
    /\ UNCHANGED <<cfg, running, lastNano, audit, req, task, err, local,
                   events, resp, regs>>

\* ------------------------------------------------------------- streaming
\* Server.StreamDestruction up to the creation of the task inside
\* DestructionEngine.StreamDestruction
StreamDestruction(r, q) ==
    /\ pc[r] = "idle"
    /\ Accept(r, "stream", q)
    /\ LET v == validateStreamDestructionRequest(q)
           w == validateStreamRequest(q)
       IN  IF IsErr(v)
           THEN /\ Return(r, "return", FALSE, Wrap("validation failed: ", v), <<>>)
                /\ UNCHANGED <<task, lastNano>>
           ELSE IF IsErr(w)
           THEN /\ Return(r, "return", FALSE, Wrap("validation failed: ", w), <<>>)
                /\ UNCHANGED <<task, lastNano>>
           ELSE /\ \E t \in generateTaskID :
                      /\ task' = [task EXCEPT ![r] = [id |-> t, status |-> "running", ctx |-> "live"]]
                      /\ lastNano' = t
                /\ pc' = [pc EXCEPT ![r] = "send_start"]
                /\ UNCHANGED resp
    /\ UNCHANGED <<cfg, fs, running, audit, idx, results, err, local, events,
                   ops, regs>>

\* the strategy entered without the start event having been sent
SendStart_Silent(r) ==
    /\ pc[r] = "send_start"
    /\ pc' = [pc EXCEPT ![r] = "dispatch"]
    /\ UNCHANGED <<cfg, fs, running, lastNano, audit, req, task, idx, results,
                   err, local, events, ops, resp, regs>>

\* stream.Send(startEvent)
SendStart(r) ==
    /\ pc[r] = "send_start"
    /\ \E ok \in BOOLEAN :
         /\ events' = Log(events, r, Event("started", <<>>, 0, 1, 0, ok))
         /\ IF ok
            THEN /\ pc' = [pc EXCEPT ![r] = "dispatch"]
                 /\ UNCHANGED resp
            ELSE Return(r, "return", FALSE, SendErr(Len(events[r]) + 1), <<>>)
    /\ UNCHANGED <<cfg, fs, running, lastNano, audit, req, task, idx, results,
                   err, local, ops, regs>>

\* stream.Send(progressEvent), before target i is processed
SendBefore(r) ==
    /\ pc[r] = "send_before"
    /\ \E ok \in BOOLEAN :
         /\ events' = Log(events, r,
                Event("progress", Target(r), idx[r], NumTargets(r), 0, ok))
         /\ IF ok
            THEN /\ pc' = [pc EXCEPT ![r] = "check"]
                 /\ UNCHANGED err
            ELSE /\ err' = [err EXCEPT ![r] = SendErr(Len(events[r]) + 1)]
                 /\ pc' = [pc EXCEPT ![r] = "finish"]
    /\ UNCHANGED <<cfg, fs, running, lastNano, audit, req, task, idx, results,
                   local, ops, resp, regs>>

\* the loop going on to the next target although the send failed
SendAfter_ContinueOnFailure(r) ==
    /\ pc[r] = "send_after"
    /\ \E ok \in BOOLEAN :
         events' = Log(events, r,
                Event("progress", Target(r), idx[r] + 1, NumTargets(r), 0, ok))
    /\ pc' = [pc EXCEPT ![r] = "loop"]
    /\ idx' = [idx EXCEPT ![r] = @ + 1]
    /\ UNCHANGED <<cfg, fs, running, lastNano, audit, req, task, results, err,
                   local, ops, resp, regs>>

\* stream.Send(targetCompleteEvent), after target i was processed
SendAfter(r) ==
    /\ pc[r] = "send_after"
    /\ \E ok \in BOOLEAN :
         /\ events' = Log(events, r,
                Event("progress", Target(r), idx[r] + 1, NumTargets(r), 0, ok))
         /\ IF ok
            THEN /\ pc' = [pc EXCEPT ![r] = "loop"]
                 /\ idx' = [idx EXCEPT ![r] = @ + 1]
                 /\ UNCHANGED err
            ELSE /\ err' = [err EXCEPT ![r] = SendErr(Len(events[r]) + 1)]
                 /\ pc' = [pc EXCEPT ![r] = "finish"]
                 /\ UNCHANGED idx
    /\ UNCHANGED <<cfg, fs, running, lastNano, audit, req, task, results,
                   local, ops, resp, regs>>

\* the strategy has returned (results, err) to its caller
Finish(r) ==
    /\ pc[r] = "finish"
    /\ IF req[r].entry = "execute"
       THEN /\ pc' = [pc EXCEPT ![r] = "unregister"]
            /\ UNCHANGED resp
       ELSE IF req[r].entry = "stream"
       THEN /\ pc' = [pc EXCEPT ![r] = "send_final"]
            /\ UNCHANGED resp
       ELSE Return(r, "return", ~IsErr(err[r]), err[r], results[r])
    /\ UNCHANGED <<cfg, fs, running, lastNano, audit, req, task, idx, results,
                   err, local, events, ops, regs>>

\* return stream.Send(finalEvent): the error event or the completed event
SendFinal(r) ==
    /\ pc[r] = "send_final"
    /\ \E ok \in BOOLEAN :
         /\ events' = Log(events, r,
                IF IsErr(err[r])
                THEN Event("error", <<>>, 1, 1, 0, ok)
                ELSE Event("completed", <<>>, 1, 1, Len(results[r]), ok))
         /\ IF ok
            THEN Return(r, "return", TRUE, NoMessage, results[r])
            ELSE Return(r, "return", FALSE, SendErr(Len(events[r]) + 1), results[r])
    /\ UNCHANGED <<cfg, fs, running, lastNano, audit, req, task, idx, results,
                   err, local, ops, regs>>

\* ------------------------------------------- the end of a synchronous call
\* the deferred delete(e.running, task.ID), under e.mu
Unregister(r) ==
    /\ pc[r] = "unregister"
    /\ LET u == running[task[r].id]
       IN  /\ running' = [running EXCEPT ![task[r].id] = 0]
           /\ regs' = IF u = 0 THEN regs
                      ELSE [regs EXCEPT ![u].removed = @ + 1]
    /\ pc' = [pc EXCEPT ![r] = "audit"]
    /\ UNCHANGED <<cfg, fs, lastNano, audit, req, task, idx, results, err,
                   local, events, ops, resp>>

\* a response that succeeds only when every target did
EngineResponse_AllTargets(r) ==
    [kind |-> "response",
     success |-> ~IsErr(err[r])
                 /\ \A k \in 1..Len(results[r]) : results[r][k].success,
     message |-> IF IsErr(err[r]) THEN err[r]
                 ELSE Msg(<<"Destruction completed successfully">>, <<>>),
     results |-> results[r]]

\* the response of DestructionEngine.ExecuteDestruction
EngineResponse(r) ==
    [kind |-> "response", success |-> ~IsErr(err[r]),
     message |-> IF IsErr(err[r]) THEN err[r]
                 ELSE Msg(<<"Destruction completed successfully">>, <<>>),
     results |-> results[r]]

\* Server.ExecuteDestruction after the engine returned: the audit record,
\* then the response
ServerReturn(r) ==
    /\ pc[r] = "audit"
    /\ audit' = IF cfg.AuditLog
                THEN Append(audit, [action |-> "DESTRUCTION_EXECUTED",
                                    type |-> req[r].type,
                                    targets |-> req[r].targets,
                                    severity |-> req[r].severity,
                                    success |-> EngineResponse(r).success])
                ELSE audit
    /\ resp' = [resp EXCEPT ![r] = EngineResponse(r)]
    /\ pc' = [pc EXCEPT ![r] = "done"]
    /\ UNCHANGED <<cfg, fs, running, lastNano, req, task, idx, results, err,
                   local, events, ops, regs>>

\* executeFileDeletion called on a task built by hand, as the package's
\* tests call the strategies and helpers (Severity LOW, Confirm true)
StrategyCall(r, q) ==
    /\ pc[r] = "idle"
    /\ q.type = DESTRUCTION_TYPE_FILE_DELETION
    /\ q.severity = DESTRUCTION_SEVERITY_LOW
    /\ q.confirm
    /\ Accept(r, "strategy", q)
    /\ task' = [task EXCEPT ![r] = [id |-> 0, status |-> "running", ctx |-> "live"]]
    /\ pc' = [pc EXCEPT ![r] = "loop"]
    /\ UNCHANGED <<cfg, fs, running, lastNano, audit, idx, results, err, local,
                   events, ops, resp, regs>>

\* the caller cancels the context of its call while the call is in progress:
\* task.Context, derived from it by context.WithCancel, is done from then on
Cancel(r) ==
    /\ pc[r] \notin {"idle", "done"}
    /\ task[r].ctx = "live"
    /\ task' = [task EXCEPT ![r].ctx = "cancelled"]
    /\ UNCHANGED <<cfg, fs, running, lastNano, audit, pc, req, idx, results,
                   err, local, events, ops, resp, regs>>

\* ------------------------------------------------------ specifications
NoRequest == [entry |-> "none", type |-> 0, targets |-> <<>>, severity |-> 0,
              confirm |-> FALSE]

Init ==
    /\ cfg \in Configs
    /\ fs = InitialFs
    /\ running = [t \in TaskIds |-> 0]
    /\ lastNano = 0
    /\ audit = <<>>
    /\ pc = [r \in Slots |-> "idle"]
    /\ req = [r \in Slots |-> NoRequest]
    /\ task = [r \in Slots |-> NoTask]
    /\ idx = [r \in Slots |-> 0]
    /\ results = [r \in Slots |-> <<>>]
    /\ err = [r \in Slots |-> NoMessage]
    /\ local = [r \in Slots |-> NoLocal]
    /\ events = [r \in Slots |-> <<>>]
    /\ ops = [r \in Slots |-> <<>>]
    /\ resp = [r \in Slots |-> NoResponse]
    /\ regs = [r \in Slots |-> NoRegs]

\* the steps of the goroutine of slot r
Step(r) ==
    \/ Register(r) \/ Dispatch(r) \/ LoopHead(r) \/ CheckBlocked(r)
    \/ Stat(r) \/ CopyOpen(r) \/ CopyCreate(r) \/ CopyData(r) \/ Remove(r)
    \/ SendStart(r) \/ SendBefore(r) \/ SendAfter(r) \/ Finish(r)
    \/ SendFinal(r) \/ Unregister(r) \/ ServerReturn(r) \/ Cancel(r)

\* one caller making one call: any request, at any entry point
AllIdle == \A r \in Slots : pc[r] = "idle"
ExecuteCall == AllIdle /\ \E q \in Requests : ExecuteDestruction(1, q)
StreamCall == AllIdle /\ \E q \in Requests : StreamDestruction(1, q)
UnitCall == AllIdle /\ \E q \in Requests : StrategyCall(1, q)

Next == ExecuteCall \/ StreamCall \/ UnitCall \/ (\E r \in Slots : Step(r))

Spec == Init /\ [][Next]_vars

\* callers at the same time, one call per goroutine, on the same file
ConcRequests ==
    [type : {DESTRUCTION_TYPE_FILE_DELETION, DESTRUCTION_TYPE_SERVICE_TERMINATION},
     targets : {<<TX>>},
     severity : {DESTRUCTION_SEVERITY_LOW, DESTRUCTION_SEVERITY_CRITICAL},
     confirm : {TRUE}, ai_scenario_id : {""}]

\* a new call is handled by the next goroutine
NextSlot(r) == pc[r] = "idle" /\ \A s \in 1..(r - 1) : pc[s] # "idle"

ConcExecute ==
    \E r \in Slots, q \in ConcRequests : NextSlot(r) /\ ExecuteDestruction(r, q)
ConcStream ==
    \E r \in Slots, q \in ConcRequests : NextSlot(r) /\ StreamDestruction(r, q)

NextConc == ConcExecute \/ ConcStream \/ (\E r \in Slots : Step(r))

ConcConfigs ==
    {ZeroConfig,
     [RequireConfirmation |-> TRUE, MaxSeverity |-> "HIGH",
      AllowedTargets |-> << <<"/", "t">> >>,
      BlockedTargets |-> << <<"/", "e">>, <<"/", "t", "/", "k">> >>,
      AuditLog |-> TRUE]}

InitConc == Init /\ cfg \in ConcConfigs

SpecConc == InitConc /\ [][NextConc]_vars

\* calls one after the other on the same file, which is written anew
\* between them
NewContent == <<1>>
SeqRequests ==
    [type : {DESTRUCTION_TYPE_FILE_DELETION}, targets : {<<TX>>},
     severity : {DESTRUCTION_SEVERITY_LOW}, confirm : {TRUE},
     ai_scenario_id : {""}]

\* no call is in progress
NoCallRunning == \A r \in Slots : pc[r] \in {"idle", "done"}

\* os.WriteFile(testFile, ...): the file is created again after its deletion
Recreate ==
    /\ NoCallRunning
    /\ fs[TX].kind = "absent"
    /\ fs' = [fs EXCEPT ![TX] = File(NewContent)]
    /\ UNCHANGED <<cfg, running, lastNano, audit, pc, req, task, idx, results,
                   err, local, events, ops, resp, regs>>

SeqExecute ==
    \E r \in Slots, q \in SeqRequests :
        NoCallRunning /\ NextSlot(r) /\ ExecuteDestruction(r, q)
SeqStream ==
    \E r \in Slots, q \in SeqRequests :
        NoCallRunning /\ NextSlot(r) /\ StreamDestruction(r, q)

NextSeq == SeqExecute \/ SeqStream \/ Recreate \/ (\E r \in Slots : Step(r))

InitSeq == Init /\ cfg = ZeroConfig

SpecSeq == InitSeq /\ [][NextSeq]_vars

\* =================================================================
\* The properties
\* =================================================================
\* a request that came in through the server
Served == {r \in Slots : req[r].entry \in {"execute", "stream"}}
Called == {r \in Slots : req[r].entry # "none"}

\* p is a prefix of t, byte by byte
PrefixOf(p, t) == Len(p) <= Len(t) /\ \A k \in 1..Len(p) : t[k] = p[k]
HasBlockedPrefix(t) ==
    \E k \in DOMAIN cfg.BlockedTargets : PrefixOf(cfg.BlockedTargets[k], t)
HasAllowedPrefix(t) ==
    \E k \in DOMAIN cfg.AllowedTargets : PrefixOf(cfg.AllowedTargets[k], t)
OffAllowList(t) == cfg.AllowedTargets # <<>> /\ ~HasAllowedPrefix(t)

\* the rank of a ceiling string
RankOf(str) ==
    IF str = "CRITICAL" THEN 4 ELSE IF str = "HIGH" THEN 3
    ELSE IF str = "MEDIUM" THEN 2 ELSE 1

Unconfirmed(r) == cfg.RequireConfirmation /\ ~req[r].confirm
OverCeiling(r) == req[r].severity > RankOf(cfg.MaxSeverity)
BlockedIdx(r) ==
    {k \in 1..Len(req[r].targets) : HasBlockedPrefix(req[r].targets[k])}
OffListIdx(r) ==
    {k \in 1..Len(req[r].targets) : OffAllowList(req[r].targets[k])}

ToBeRejected(r) ==
    Unconfirmed(r) \/ OverCeiling(r) \/ BlockedIdx(r) # {} \/ OffListIdx(r) # {}

ReasonTexts ==
    {"destruction must be confirmed",
     "requested severity exceeds maximum allowed (",
     "target is blocked: ", "target is not in allowed list: "}

\* nothing was done for the request of slot r
Untouched(r) ==
    /\ task[r] = NoTask
    /\ ~regs[r].registered
    /\ \A t \in TaskIds : running[t] # r
    /\ ops[r] = <<>>
    /\ events[r] = <<>>
    /\ results[r] = <<>>

\* C1: a request that validation must reject (confirmation missing while
\* required, severity above the ceiling, a blocked target, a target outside
\* a non-empty allow-list) is rejected at once: no task is created or
\* registered, no filesystem call is made and the filesystem is unchanged,
\* no event is sent, and the caller receives a failure that carries the
\* validator's reason (holding "confirm" for a missing confirmation).
C1_RejectedBeforeAnything ==
    \A r \in Served :
        ToBeRejected(r) =>
            /\ pc[r] = "done"
            /\ Untouched(r)
            /\ fs = InitialFs
            /\ resp[r].kind = (IF req[r].entry = "execute" THEN "response" ELSE "return")
            /\ ~resp[r].success
            /\ resp[r].results = <<>>
            /\ \E t \in ReasonTexts : Mentions(resp[r].message, t)
            /\ Unconfirmed(r) => MentionsConfirm(resp[r].message)

C1_Witness ==
    \E r \in Served :
        /\ req[r].entry = "execute"
        /\ Unconfirmed(r)
        /\ req[r].targets = <<TX>>
        /\ pc[r] = "done"
        /\ ~resp[r].success

\* no filesystem call was made for the k-th target of slot r
NeverExecuted(r, k) == \A j \in 1..Len(ops[r]) : ops[r][j].i # k - 1

\* the failure the caller of slot r sees for its k-th target holds "blocked"
ReportedBlocked(r, k) ==
    IF r \in Served
    THEN ~resp[r].success /\ MentionsBlocked(resp[r].message)
    ELSE /\ Len(resp[r].results) >= k
         /\ ~resp[r].results[k].success
         /\ MentionsBlocked(resp[r].results[k].error_message)

\* C2 as stated: a target with a blocked prefix is never executed and is
\* reported as a failure containing "blocked", whatever else is wrong with
\* the request.
C2_AsStated ==
    \A r \in Called : \A k \in BlockedIdx(r) :
        /\ NeverExecuted(r, k)
        /\ pc[r] = "done" => ReportedBlocked(r, k)

\* a check the validator makes before it reaches the k-th target fails
FailsBefore(r, k) ==
    \/ Unconfirmed(r)
    \/ OverCeiling(r)
    \/ \E j \in OffListIdx(r) : j < k /\ \A i \in BlockedIdx(r) : j < i

\* C2 (amended): a target with a blocked prefix is never executed, also when
\* it matches an allowed prefix: the validator rejects the request (no task,
\* no filesystem call) and the strategy's own check fails the target without
\* touching it.  The failure holds "blocked" unless an earlier check of the
\* validator (confirmation, ceiling, an earlier target off the allow-list)
\* failed first.
C2_BlockWins ==
    \A r \in Called : \A k \in BlockedIdx(r) :
        /\ NeverExecuted(r, k)
        /\ r \in Served =>
              /\ pc[r] = "done"
              /\ Untouched(r)
              /\ ~resp[r].success
              /\ FailsBefore(r, k) \/ MentionsBlocked(resp[r].message)
        /\ (r \notin Served /\ pc[r] = "done") => ReportedBlocked(r, k)

C2_Witness ==
    \E r \in Served :
        /\ req[r].targets = <<TX, TK>>
        /\ HasAllowedPrefix(TK) /\ HasBlockedPrefix(TK)
        /\ pc[r] = "done"
        /\ MentionsBlocked(resp[r].message)

\* the strategy's own check acted on a blocked target next to a deleted one
C2_StrategyWitness ==
    \E r \in Called \ Served :
        /\ req[r].targets = <<TK, TX>>
        /\ HasAllowedPrefix(TK) /\ HasBlockedPrefix(TK)
        /\ pc[r] = "done"
        /\ ReportedBlocked(r, 1)
        /\ resp[r].results[2].success

\* the filesystem calls of slot r for its target number i (from 0) of kind op
OpsOf(r, i, op) ==
    {j \in 1..Len(ops[r]) : ops[r][j].i = i /\ ops[r][j].op = op}
FsCalls == {"stat", "open", "create", "copy", "remove"}
FileDeletion(r) == req[r].type = DESTRUCTION_TYPE_FILE_DELETION

\* before call number j of slot r, the backup of target i was copied in full
BackupDone(r, i, j) ==
    \E c \in 1..(j - 1) :
        /\ ops[r][c].op = "copy" /\ ops[r][c].ok /\ ops[r][c].i = i
        /\ ops[r][c].path = Abs(BackupPath(req[r].targets[i + 1]))

\* C3: os.Remove is called on a target only after the copy to
\* target+".burndevice.backup" has completed without error; a target whose
\* stat, directory check or backup failed is never removed and its Result is
\* a failure; no call is made twice for a target (nothing is retried); a
\* file that was there and is gone was removed after its backup.
C3_BackupThenDelete ==
    \A r \in Called :
        /\ \A j \in 1..Len(ops[r]) :
              ops[r][j].op = "remove" =>
                  /\ ops[r][j].path = Abs(req[r].targets[ops[r][j].i + 1])
                  /\ BackupDone(r, ops[r][j].i, j)
        /\ \A i \in 0..(Len(req[r].targets) - 1) : \A op \in FsCalls :
              Cardinality(OpsOf(r, i, op)) <= 1
        /\ FileDeletion(r) =>
              \A k \in 1..Len(results[r]) :
                  (\A c \in OpsOf(r, k - 1, "copy") : ~ops[r][c].ok) =>
                      /\ OpsOf(r, k - 1, "remove") = {}
                      /\ ~results[r][k].success
                      /\ results[r][k].target = req[r].targets[k]
        /\ \A p \in FsPaths :
              (InitialFs[p].kind # "absent" /\ fs[p].kind = "absent") =>
                  \E j \in 1..Len(ops[r]) :
                      /\ ops[r][j].op = "remove" /\ ops[r][j].ok
                      /\ ops[r][j].path = p
                      /\ BackupDone(r, ops[r][j].i, j)

\* a copy failed half way: the call has returned, the original is in place
C3_Witness ==
    \E r \in Called :
        /\ pc[r] = "done"
        /\ req[r].targets = <<TX>>
        /\ \E c \in OpsOf(r, 0, "copy") : ~ops[r][c].ok
        /\ fs[TX] = InitialFs[TX]
        /\ fs[TXB] = File(<<7>>)
        /\ ~resp[r].results[1].success

\* the bytes the original of target k held when it was opened for its backup
OriginalData(r, k) ==
    LET j == CHOOSE j \in OpsOf(r, k - 1, "open") : TRUE IN ops[r][j].data

\* C4: when a file-deletion request has returned, every target whose Result
\* is a success has its backup file in place, holding the bytes of the
\* original, and the original path no longer exists.
C4_BackupOfEverySuccess ==
    \A r \in Served :
        (pc[r] = "done" /\ FileDeletion(r)) =>
            \A k \in 1..Len(resp[r].results) :
                resp[r].results[k].success =>
                    /\ OpsOf(r, k - 1, "open") # {}
                    /\ fs[Abs(BackupPath(req[r].targets[k]))]
                           = File(OriginalData(r, k))
                    /\ fs[Abs(req[r].targets[k])].kind = "absent"

\* the same for the target lists in which no target is the backup path of
\* an earlier one
C4_NoBackupAmongTargets ==
    \A r \in Served :
        (/\ pc[r] = "done" /\ FileDeletion(r)
         /\ \A a, b \in 1..Len(req[r].targets) :
                a < b => Abs(req[r].targets[b]) # Abs(BackupPath(req[r].targets[a]))) =>
            \A k \in 1..Len(resp[r].results) :
                resp[r].results[k].success =>
                    /\ OpsOf(r, k - 1, "open") # {}
                    /\ fs[Abs(BackupPath(req[r].targets[k]))]
                           = File(OriginalData(r, k))
                    /\ fs[Abs(req[r].targets[k])].kind = "absent"

\* every call made so far has returned
Quiescent == \A r \in Slots : pc[r] \in {"idle", "done"}

\* C5: once all the requests running at the same time have returned, the
\* registry is empty, and every task that was registered was removed by
\* exactly one unregister step.
C5_RegistryLeakFree ==
    Quiescent =>
        /\ \A t \in TaskIds : running[t] = 0
        /\ \A r \in Slots : regs[r].registered => regs[r].removed = 1

\* the first half alone: no entry is left behind
C5_RegistryEmpty == Quiescent => \A t \in TaskIds : running[t] = 0

KnownCeilings == {"LOW", "MEDIUM", "HIGH", "CRITICAL"}
Accepted(r) == task[r] # NoTask

\* C6: a request whose severity rank exceeds the ceiling rank is rejected
\* before a task exists or a target is touched; the ceiling rank is LOW=1,
\* MEDIUM=2, HIGH=3, CRITICAL=4 and 1 for any other string, in the engine
\* and in the server; under an unrecognized ceiling only severities up to
\* low are accepted, and a request with nothing else wrong is accepted
\* exactly when its severity is within the ceiling.
C6_SeverityCeiling ==
    /\ getSeverityLevel(cfg.MaxSeverity) = RankOf(cfg.MaxSeverity)
    /\ s_getSeverityLevel(cfg.MaxSeverity) = RankOf(cfg.MaxSeverity)
    /\ \A r \in Served :
          /\ OverCeiling(r) =>
                /\ pc[r] = "done"
                /\ Untouched(r)
                /\ fs = InitialFs
                /\ ~resp[r].success
          /\ (cfg.MaxSeverity \notin KnownCeilings /\ Accepted(r)) =>
                req[r].severity <= 1
          /\ ~ToBeRejected(r) => Accepted(r)

\* medium severity under a ceiling string that is not recognized
C6_Witness ==
    \E r \in Served :
        /\ cfg.MaxSeverity = "low"
        /\ req[r].severity = 2
        /\ ~Unconfirmed(r)
        /\ req[r].targets = <<TX>>
        /\ pc[r] = "done"
        /\ Mentions(resp[r].message, "requested severity exceeds maximum allowed (")

\* the first target of slot r that fails a check of the validator
BadIdx(r) == BlockedIdx(r) \cup OffListIdx(r)
FirstBad(r) == CHOOSE k \in BadIdx(r) : \A j \in BadIdx(r) : k <= j

\* the reason the validator is to give: that of the first failing check
ExpectedReason(r) ==
    IF Unconfirmed(r) THEN Msg(<<"destruction must be confirmed">>, <<>>)
    ELSE IF OverCeiling(r)
    THEN Msg(<<"requested severity exceeds maximum allowed (", cfg.MaxSeverity,
               ")">>, <<>>)
    ELSE IF BadIdx(r) = {} THEN NoMessage
    ELSE IF FirstBad(r) \in BlockedIdx(r)
    THEN Msg(<<"target is blocked: ">>, req[r].targets[FirstBad(r)])
    ELSE Msg(<<"target is not in allowed list: ">>, req[r].targets[FirstBad(r)])

\* C7: the validators check confirmation, then the ceiling, then the targets
\* in list order (block list before allow-list for each target) and stop at
\* the first failure: the reason given, and the one the caller receives, is
\* that of the first failing check.
C7_FirstFailureWins ==
    \A r \in Served :
        /\ validateExecuteRequest(req[r]) = ExpectedReason(r)
        /\ validateDestructionRequest(req[r]) = ExpectedReason(r)
        /\ IsErr(ExpectedReason(r)) =>
              /\ pc[r] = "done"
              /\ resp[r].message =
                    Wrap(IF req[r].entry = "execute" THEN "Validation failed: "
                         ELSE "validation failed: ", ExpectedReason(r))
        /\ ~IsErr(ExpectedReason(r)) => Accepted(r)

\* a target off the allow-list before a blocked one: the reason names the
\* first
C7_Witness ==
    \E r \in Served :
        /\ ~Unconfirmed(r) /\ ~OverCeiling(r)
        /\ req[r].targets = <<TR, TK>>
        /\ OffAllowList(TR) /\ HasBlockedPrefix(TK)
        /\ pc[r] = "done"
        /\ resp[r].message.parts[2] = "target is not in allowed list: "
        /\ resp[r].message.target = TR

\* unconfirmed, over the ceiling and naming a blocked target: rejected for
\* the missing confirmation
C7_WitnessConfirm ==
    \E r \in Served :
        /\ Unconfirmed(r) /\ OverCeiling(r) /\ BlockedIdx(r) # {}
        /\ pc[r] = "done"
        /\ MentionsConfirm(resp[r].message)

\* the accepted streaming requests, and those whose sends all succeeded
Streamed == {r \in Served : req[r].entry = "stream" /\ Accepted(r)}
AllSent(r) == \A k \in 1..Len(events[r]) : events[r][k].ok
Shape(e) == <<e.type, e.target, e.num, e.den>>

\* the events a streaming file deletion of the targets of slot r is to emit
ExpectedEvents(r) ==
    LET n == Len(req[r].targets)
    IN  <<  <<"started", <<>>, 0, 1>>  >>
        \o [k \in 1..(2 * n) |->
              LET i == (k - 1) \div 2
              IN  <<"progress", req[r].targets[i + 1],
                    IF k % 2 = 1 THEN i ELSE i + 1, n>>]
        \o <<  <<"completed", <<>>, 1, 1>>  >>

\* C8: a validated streaming file deletion of n targets whose sends all
\* succeed emits one started event (0), then for each target in order a
\* progress event i/n and a progress event (i+1)/n carrying that target,
\* whether its deletion succeeded or failed, then one completed event (1):
\* at every moment the events sent are a prefix of that sequence, and the
\* whole of it when the call has returned.
C8_StreamEventSequence ==
    \A r \in Streamed :
        (FileDeletion(r) /\ AllSent(r)) =>
            /\ Len(events[r]) <= Len(ExpectedEvents(r))
            /\ \A k \in 1..Len(events[r]) :
                  Shape(events[r][k]) = ExpectedEvents(r)[k]
            /\ pc[r] = "done" => Len(events[r]) = Len(ExpectedEvents(r))
            /\ \A i \in 1..Len(results[r]) : Len(events[r]) >= 2 * i

\* two targets, the first deleted and the second failed: fractions 0, 1/2,
\* 1/2, 1 between the started and the completed event
C8_Witness ==
    \E r \in Streamed :
        /\ FileDeletion(r) /\ AllSent(r) /\ pc[r] = "done"
        /\ Len(req[r].targets) = 2
        /\ Len(results[r]) = 2
        /\ results[r][1].success /\ ~results[r][2].success
        /\ [k \in 1..6 |-> <<events[r][k].num, events[r][k].den>>]
              = << <<0, 1>>, <<0, 2>>, <<1, 2>>, <<1, 2>>, <<2, 2>>, <<1, 1>> >>

Terminal(e) == e.type \in {"completed", "error"}

\* C9: an accepted streaming request of any category whose sends all succeed
\* emits exactly one started event, first and before any target work, and
\* exactly one terminal event (completed or error, progress 1), last: no
\* event follows the terminal one and the call has returned once it is sent.
C9_StartedAndTerminal ==
    \A r \in Streamed :
        AllSent(r) =>
            /\ (ops[r] # <<>> \/ results[r] # <<>>) => events[r] # <<>>
            /\ \A k \in 1..Len(events[r]) :
                  /\ events[r][k].type = "started" <=> k = 1
                  /\ events[r][k].type = "started" =>
                        events[r][k].num = 0
                  /\ Terminal(events[r][k]) =>
                        /\ k = Len(events[r])
                        /\ pc[r] = "done"
                        /\ events[r][k].num = events[r][k].den
                        /\ events[r][k].type = "error" <=> IsErr(err[r])
            /\ pc[r] = "done" =>
                  /\ Len(events[r]) >= 2
                  /\ Terminal(events[r][Len(events[r])])

\* a streaming request of a category other than file deletion, returned
C9_Witness ==
    \E r \in Streamed :
        /\ ~FileDeletion(r) /\ AllSent(r) /\ pc[r] = "done"
        /\ Len(req[r].targets) = 2
        /\ [k \in 1..Len(events[r]) |-> events[r][k].type]
              = <<"started", "completed">>

StreamCalls == {r \in Served : req[r].entry = "stream"}

\* C10: a failed send is the last send attempted on the stream, and the call
\* returns the error of that send.
C10_AbortOnSendFailure ==
    \A r \in StreamCalls :
        \A k \in 1..Len(events[r]) :
            ~events[r][k].ok =>
                /\ k = Len(events[r])
                /\ pc[r] = "done" => resp[r].message = SendErr(k)

\* what holds of the start event alone: when its send fails nothing else is
\* sent, no target is worked on, and the call returns that error
C10_StartedAborts ==
    \A r \in StreamCalls :
        (events[r] # <<>> /\ ~events[r][1].ok) =>
            /\ Len(events[r]) = 1
            /\ pc[r] = "done"
            /\ resp[r].message = SendErr(1)
            /\ ops[r] = <<>> /\ results[r] = <<>>

\* C11: once the context of a call is cancelled no further target is begun:
\* a cancelled call standing between two targets (or before the first) does
\* not go on to the next target's progress event or blocked-prefix check.
C11_StopsWhenCancelled ==
    [][\A r \in Slots :
          (task[r].ctx = "cancelled" /\ pc[r] = "loop"
             /\ idx[r] < NumTargets(r))
          => pc'[r] \notin {"send_before", "check"}]_vars

AllFailed(r) == \A k \in 1..Len(results[r]) : ~results[r][k].success
SendFailedBefore(r, k) == \E j \in 1..(k - 1) : ~events[r][j].ok

\* C12: the failure of a target never fails the request: an accepted
\* synchronous file deletion answers success=true with its Results whatever
\* they are, and the terminal event of an accepted streaming file deletion
\* is the completed one unless the strategy itself returned an error, which
\* it does only when a send failed, never because a target failed.
C12_TargetFailuresSwallowed ==
    \A r \in Served :
        (Accepted(r) /\ FileDeletion(r)) =>
            /\ (req[r].entry = "execute" /\ pc[r] = "done") =>
                  /\ resp[r].kind = "response"
                  /\ resp[r].success
                  /\ resp[r].results = results[r]
            /\ IsErr(err[r]) => ~AllSent(r)
            /\ \A k \in 1..Len(events[r]) :
                  Terminal(events[r][k]) =>
                     (events[r][k].type = "error" <=> SendFailedBefore(r, k))

\* a synchronous request whose two targets both failed, answered success
C12_Witness ==
    \E r \in Served :
        /\ Accepted(r) /\ FileDeletion(r)
        /\ req[r].entry = "execute" /\ pc[r] = "done"
        /\ Len(resp[r].results) = 2 /\ AllFailed(r)
        /\ resp[r].success

\* a streaming request whose two targets both failed, ended by completed
C12_StreamWitness ==
    \E r \in Streamed :
        /\ FileDeletion(r) /\ pc[r] = "done" /\ AllSent(r)
        /\ Len(results[r]) = 2 /\ AllFailed(r)
        /\ events[r][Len(events[r])].type = "completed"

SyncFileDeletions ==
    {r \in Served : req[r].entry = "execute" /\ Accepted(r) /\ FileDeletion(r)}

\* C13: an accepted synchronous file deletion of targets t1..tn works on the
\* targets in the order given (the filesystem calls never go back to an
\* earlier target, and each stat is of the file the target of its turn
\* names), Result i
\* describes ti, a failed target does not end the loop, and the response
\* carries exactly n Results with success=true; none when n = 0.
C13_OneResultPerTargetInOrder ==
    \A r \in SyncFileDeletions :
        LET n == Len(req[r].targets)
        IN  /\ Len(results[r]) <= n
            /\ \A i \in 1..Len(results[r]) :
                  results[r][i].target = req[r].targets[i]
            /\ \A j \in 1..Len(ops[r]) :
                  /\ ops[r][j].i < n
                  /\ j > 1 => ops[r][j - 1].i <= ops[r][j].i
                  /\ ops[r][j].op = "stat" =>
                        ops[r][j].path = Abs(req[r].targets[ops[r][j].i + 1])
            /\ pc[r] = "done" =>
                  /\ Len(resp[r].results) = n
                  /\ resp[r].results = results[r]
                  /\ resp[r].success

\* the first of two targets failed and the second was deleted all the same
C13_Witness ==
    \E r \in SyncFileDeletions :
        /\ pc[r] = "done"
        /\ Len(resp[r].results) = 2
        /\ ~resp[r].results[1].success
        /\ resp[r].results[2].success

\* no target at all: no Result, success
C13_WitnessEmpty ==
    \E r \in SyncFileDeletions :
        /\ pc[r] = "done" /\ req[r].targets = <<>>
        /\ resp[r].results = <<>> /\ resp[r].success

\* C14: an accepted request of any category and any number of targets never
\* has more Results than targets.
C14_ResultsBounded ==
    \A r \in Served :
        Accepted(r) =>
            /\ Len(results[r]) <= Len(req[r].targets)
            /\ Len(resp[r].results) <= Len(req[r].targets)

\* the bound does hold whenever the request names a target or is a file
\* deletion
C14_BoundedWithTargets ==
    \A r \in Served :
        (Accepted(r) /\ (req[r].targets # <<>> \/ FileDeletion(r))) =>
            /\ Len(results[r]) <= Len(req[r].targets)
            /\ Len(resp[r].results) <= Len(req[r].targets)

\* the audit records that describe the request of slot r and its outcome
AuditRecordsOf(r, success) ==
    {k \in 1..Len(audit) :
        /\ audit[k].type = req[r].type
        /\ audit[k].targets = req[r].targets
        /\ audit[k].severity = req[r].severity
        /\ audit[k].success = success}

\* C15: with the audit log enabled, every accepted request that has run to
\* completion (no send failed), synchronous or streaming, left exactly one
\* audit record with
\* its category, targets, severity and aggregate success.
C15_OneAuditRecord ==
    \A r \in Served :
        (cfg.AuditLog /\ Accepted(r) /\ pc[r] = "done" /\ AllSent(r)) =>
            /\ Len(audit) = 1
            /\ AuditRecordsOf(r, resp[r].success) = {1}

\* what holds of the synchronous call alone
C15_SyncAudited ==
    \A r \in Served :
        (cfg.AuditLog /\ Accepted(r) /\ pc[r] = "done"
           /\ req[r].entry = "execute") =>
            /\ Len(audit) = 1
            /\ AuditRecordsOf(r, resp[r].success) = {1}

\* the targets written one after the other with a comma between them
RECURSIVE CommaJoined(_)
CommaJoined(ts) ==
    IF ts = <<>> THEN <<>>
    ELSE IF Len(ts) = 1 THEN ts[1]
    ELSE CommaJoined(SubSeq(ts, 1, Len(ts) - 1)) \o <<",">> \o ts[Len(ts)]

\* the strategy of slot r has run
StrategyRan(r) ==
    pc[r] \in {"finish", "send_final", "unregister", "audit"}
    \/ (pc[r] = "done"
        /\ (req[r].entry = "execute" \/ (events[r] # <<>> /\ events[r][1].ok)))

\* C16: an accepted request of a category other than file deletion makes no
\* filesystem call and changes no file, and its strategy returns exactly
\* one Result: success, the targets joined by commas as its target, the
\* fixed execution time, whatever the number of targets.
C16_BasicDestructionSimulated ==
    \A r \in Served :
        (Accepted(r) /\ ~FileDeletion(r)) =>
            /\ ops[r] = <<>>
            /\ fs = InitialFs
            /\ Len(results[r]) <= 1
            /\ StrategyRan(r) => Len(results[r]) = 1
            /\ \A k \in 1..Len(results[r]) :
                  /\ results[r][k].success
                  /\ results[r][k].target = CommaJoined(req[r].targets)
                  /\ results[r][k].fixed_time
            /\ (pc[r] = "done" /\ req[r].entry = "execute") =>
                  resp[r].success /\ resp[r].results = results[r]

\* a kernel-panic request naming two targets, one of them an existing file
C16_Witness ==
    \E r \in Served :
        /\ Accepted(r) /\ req[r].type = DESTRUCTION_TYPE_KERNEL_PANIC
        /\ req[r].entry = "execute" /\ pc[r] = "done"
        /\ req[r].targets = <<TX, TD>>
        /\ Len(resp[r].results) = 1
        /\ resp[r].results[1].target = TX \o <<",">> \o TD

\* the request q with another category and scenario reference
Variant(q, ty, sc) == [q EXCEPT !.type = ty, !.ai_scenario_id = sc]
ScenarioIds == {"", "scn"}
SameInputs(r1, r2) ==
    /\ req[r1].confirm = req[r2].confirm
    /\ req[r1].severity = req[r2].severity
    /\ req[r1].targets = req[r2].targets

\* the reason in the answer to a rejected request, without the entry
\* point's own prefix
GivenReason(r) == [resp[r].message EXCEPT !.parts = Tail(@)]
Rejected(r) == r \in Served /\ pc[r] = "done" /\ task[r] = NoTask

\* C17: the validators' outcome depends on the confirmed flag, the severity,
\* the targets and the policy alone: for every request, every category and
\* every scenario reference the four validators give the outcome they give
\* for the request as it is; and two calls with the same flag, severity and
\* targets, whatever else is going on in the engine, are both accepted or
\* both rejected with the same reason.
C17_ValidationDeterministic ==
    /\ (\A r \in Slots : pc[r] = "idle") =>
          \A q \in Requests : \A ty \in DestructionTypes : \A sc \in ScenarioIds :
              /\ validateExecuteRequest(Variant(q, ty, sc))
                    = validateExecuteRequest(q)
              /\ validateStreamRequest(Variant(q, ty, sc))
                    = validateExecuteRequest(q)
              /\ validateDestructionRequest(Variant(q, ty, sc))
                    = validateExecuteRequest(q)
              /\ validateStreamDestructionRequest(Variant(q, ty, sc))
                    = validateExecuteRequest(q)
    /\ \A r \in Served :
          /\ IsErr(validateExecuteRequest(req[r])) <=> task[r] = NoTask
          /\ task[r] = NoTask =>
                /\ pc[r] = "done"
                /\ GivenReason(r) = validateExecuteRequest(req[r])
    /\ \A r1, r2 \in Served :
          SameInputs(r1, r2) =>
              /\ task[r1] = NoTask <=> task[r2] = NoTask
              /\ task[r1] = NoTask => GivenReason(r1) = GivenReason(r2)

\* the same rejected request made twice, the second time after the first
\* was answered, and answered the same
C17_Witness ==
    /\ Rejected(1) /\ Rejected(2)
    /\ SameInputs(1, 2)
    /\ req[1].entry # req[2].entry
    /\ GivenReason(1) = GivenReason(2)
    /\ IsErr(GivenReason(1))

\* a request rejected while another call's task is in the registry
C17_WitnessBusy ==
    \E r \in Slots :
        /\ Rejected(r)
        /\ \E t \in TaskIds : running[t] # 0 /\ running[t] # r

\* the strategy of slot r is at work on the targets
Processing(r) ==
    pc[r] \in {"dispatch", "loop", "send_before", "check", "stat", "open",
               "create", "copy", "remove", "send_after", "finish"}

\* C18: the task of an accepted streaming request is in the registry from
\* before its first target is processed until the strategy has returned,
\* and is out of it when the call has returned.
C18_StreamTaskRegistered ==
    \A r \in Streamed :
        /\ Processing(r) =>
              /\ regs[r].registered
              /\ running[task[r].id] = r
        /\ pc[r] = "done" => \A t \in TaskIds : running[t] # r

\* the same of the synchronous call, which does register its task
C18_SyncTaskRegistered ==
    \A r \in Served :
        (req[r].entry = "execute" /\ Accepted(r)) =>
            /\ Processing(r) =>
                  /\ regs[r].registered
                  /\ running[task[r].id] = r
            /\ pc[r] = "done" =>
                  /\ regs[r].registered
                  /\ \A t \in TaskIds : running[t] # r

\* C19: no two tasks of an engine have the same id, so a registered task
\* whose call is still at work is the one its id is registered for, and no
\* task is taken out of the registry by the call of another.
C19_TaskIdsUnique ==
    /\ \A r1, r2 \in Served :
          (r1 # r2 /\ Accepted(r1) /\ Accepted(r2)) =>
              task[r1].id # task[r2].id
    /\ \A r \in Served :
          (req[r].entry = "execute" /\ Accepted(r) /\ Processing(r)) =>
              running[task[r].id] = r

StreamedFileDeletions == {r \in Streamed : FileDeletion(r)}

\* the progress events whose send failed, by their place in the stream:
\* place 2 + 2i is the 'before' event of target i, place 3 + 2i its 'after'
\* event (i counted from 0)
FailedProgress(r) ==
    {k \in 2..Len(events[r]) :
        events[r][k].type = "progress" /\ ~events[r][k].ok}
TargetOfPlace(k) == (k - 2) \div 2
IsBeforePlace(k) == (k - 2) % 2 = 0

\* C20: after a failed send of a progress event of a streaming file deletion
\* no further target is attempted: when the 'before' event of target i
\* failed, no filesystem call was or is made for target i or a later one;
\* when its 'after' event failed, none for a target after i; the Results of
\* the targets processed until then, and only those, are kept.
C20_NoTargetAfterFailedSend ==
    \A r \in StreamedFileDeletions :
        \A k \in FailedProgress(r) :
            LET i == TargetOfPlace(k)
                done == IF IsBeforePlace(k) THEN i ELSE i + 1
            IN  /\ \A j \in 1..Len(ops[r]) : ops[r][j].i < done
                /\ Len(results[r]) = done
                /\ \A j \in 1..done :
                      results[r][j].target = req[r].targets[j]
                /\ \A j \in (k + 1)..Len(events[r]) :
                      events[r][j].type # "progress"
                /\ pc[r] \in {"finish", "send_final", "done"}

\* two targets, the 'after' event of the first failed: the first target's
\* Result is kept and the second target was never touched
C20_Witness ==
    \E r \in StreamedFileDeletions :
        /\ pc[r] = "done"
        /\ req[r].targets = <<TX, TK>>
        /\ FailedProgress(r) = {3}
        /\ Len(results[r]) = 1 /\ results[r][1].success
        /\ ops[r] # <<>>
        /\ fs[TK] = InitialFs[TK]

\* two targets, the 'before' event of the second failed
C20_WitnessBefore ==
    \E r \in StreamedFileDeletions :
        /\ pc[r] = "done"
        /\ req[r].targets = <<TX, TK>>
        /\ FailedProgress(r) = {4}
        /\ Len(results[r]) = 1
        /\ fs[TK] = InitialFs[TK]

\* the target t in its resolved form: cleaned and made absolute
Resolved(t) == Abs(Clean(t))
ResolvedBlocked(t) ==
    HasBlockedPrefix(Resolved(t)) \/ HasBlockedPrefix(Resolved(BackupPath(t)))
ResolvedOffList(t) ==
    OffAllowList(Resolved(t)) \/ OffAllowList(Resolved(BackupPath(t)))
HasTraversal(t) ==
    Contains(Clean(t), <<".", ".">>)
    \/ Contains(Clean(BackupPath(t)), <<".", ".">>)
ResolvedChecksPass(t) ==
    ~HasTraversal(t) /\ ~ResolvedBlocked(t) /\ ~ResolvedOffList(t)

\* the target that filesystem call j of slot r was made for
TargetOfOp(r, j) == req[r].targets[ops[r][j].i + 1]

\* C21: no stat, open, create or remove is made for a target whose cleaned
\* absolute path has a traversal sequence, a blocked prefix or (with an
\* allow-list) no allowed prefix: the checks of the resolved path come
\* before every filesystem call on the target.
C21_ChecksBeforeAnyCall ==
    \A r \in Served :
        \A j \in 1..Len(ops[r]) :
            ops[r][j].op \in {"stat", "open", "create", "remove"} =>
                ResolvedChecksPass(TargetOfOp(r, j))

\* what does hold: the calls other than the stat come after the checks
C21_ChecksBeforeCopyAndRemove ==
    \A r \in Called :
        \A j \in 1..Len(ops[r]) :
            ops[r][j].op \in {"open", "create", "copy", "remove"} =>
                ResolvedChecksPass(TargetOfOp(r, j))

\* C22: a target accepted by the validator in its raw form whose resolved
\* path has a blocked prefix, or no allowed prefix under an allow-list, is
\* never opened, copied or removed and its file stays as it was; its Result
\* is a failure, and the targets after it are processed all the same.
C22_ResolvedPathRechecked ==
    \A r \in Served :
        (Accepted(r) /\ FileDeletion(r)) =>
            /\ \A j \in 1..Len(ops[r]) :
                  (ResolvedBlocked(TargetOfOp(r, j))
                     \/ ResolvedOffList(TargetOfOp(r, j))) =>
                      ops[r][j].op = "stat"
            /\ \A i \in 1..Len(req[r].targets) :
                  LET t == req[r].targets[i]
                  IN  (ResolvedBlocked(t) \/ ResolvedOffList(t)) =>
                         /\ fs[Abs(t)] = InitialFs[Abs(t)]
                         /\ i <= Len(results[r]) => ~results[r][i].success
            /\ (pc[r] = "done" /\ AllSent(r)) =>
                  Len(results[r]) = Len(req[r].targets)

\* "/t/../e/p" under allowed "/t" and blocked "/e", followed by a target
\* that is deleted
C22_Witness ==
    \E r \in Served :
        /\ Accepted(r) /\ FileDeletion(r) /\ pc[r] = "done"
        /\ req[r].targets = <<TU, TX>>
        /\ ~HasBlockedPrefix(TU) /\ ~OffAllowList(TU)
        /\ ResolvedBlocked(TU)
        /\ Len(results[r]) = 2
        /\ ~results[r][1].success
        /\ Mentions(results[r][1].error_message,
                    "access to blocked path is not allowed")
        /\ results[r][2].success
        /\ fs[Abs(TU)] = InitialFs[Abs(TU)]

\* C23: the task of an accepted request is in status running while the call
\* is at work and in status completed or failed once the call has returned:
\* completed when the strategy returned no error, failed otherwise.
C23_TaskStatusMachine ==
    \A r \in Served :
        Accepted(r) =>
            /\ task[r].status \in {"running", "completed", "failed"}
            /\ pc[r] = "done" =>
                  /\ task[r].status \in {"completed", "failed"}
                  /\ IsErr(err[r]) => task[r].status = "failed"
                  /\ (AllSent(r) /\ ~IsErr(err[r])) =>
                        task[r].status = "completed"

\* of target i (counted from 1) of slot r: its removal was tried and failed;
\* its backup copy completed; the bytes its file held when it was opened
RemoveFailed(r, i) == \E j \in OpsOf(r, i - 1, "remove") : ~ops[r][j].ok
CopyCompleted(r, i) == \E j \in OpsOf(r, i - 1, "copy") : ops[r][j].ok
OpenedData(r, i) ==
    LET j == CHOOSE k \in OpsOf(r, i - 1, "open") : ops[r][k].ok
    IN  ops[r][j].data
LastOpIsFailedRemove(r) ==
    /\ ops[r] # <<>>
    /\ ops[r][Len(ops[r])].op = "remove"
    /\ ~ops[r][Len(ops[r])].ok

\* C24: a target whose removal failed after its backup was made has a
\* failure Result carrying files_deleted = 1 and bytes_destroyed = the size
\* of the original, and when the removal has just failed the original and
\* its complete backup both exist; a target that failed before its backup
\* was complete carries 0 and 0; a deleted target carries 1 and its size.
C24_RemoveFailureKeepsBackup ==
    \A r \in Served :
        (Accepted(r) /\ FileDeletion(r)) =>
            /\ \A i \in 1..Len(results[r]) :
                  /\ RemoveFailed(r, i) =>
                        /\ ~results[r][i].success
                        /\ results[r][i].files_deleted = 1
                        /\ results[r][i].bytes_destroyed = Len(OpenedData(r, i))
                  /\ ~CopyCompleted(r, i) =>
                        /\ ~results[r][i].success
                        /\ results[r][i].files_deleted = 0
                        /\ results[r][i].bytes_destroyed = 0
                  /\ results[r][i].success =>
                        /\ results[r][i].files_deleted = 1
                        /\ results[r][i].bytes_destroyed = Len(OpenedData(r, i))
            /\ LastOpIsFailedRemove(r) =>
                  LET i == ops[r][Len(ops[r])].i + 1
                      t == req[r].targets[i]
                  IN  /\ RemoveFailed(r, i)
                      /\ fs[Abs(t)] = File(OpenedData(r, i))
                      /\ fs[Resolved(BackupPath(t))] = File(OpenedData(r, i))

\* the removal of "/t/x" (two bytes) has just failed
C24_Witness ==
    \E r \in Served :
        /\ Accepted(r) /\ FileDeletion(r)
        /\ req[r].targets = <<TX>>
        /\ LastOpIsFailedRemove(r)
        /\ pc[r] = "done"
        /\ ~results[r][1].success
        /\ results[r][1].files_deleted = 1
        /\ results[r][1].bytes_destroyed = 2
        /\ fs[TX] = InitialFs[TX]
        /\ fs[TXB] = InitialFs[TX]

\* C25: the completed event of a streaming request of any category reports
\* the number of targets of the request.
C25_CompletedReportsTargetCount ==
    \A r \in Streamed :
        \A k \in 1..Len(events[r]) :
            events[r][k].type = "completed" =>
                events[r][k].n = Len(req[r].targets)

\* what the event reports is the number of Results, which is the number of
\* targets for a file deletion
C25_CompletedReportsResultCount ==
    \A r \in Streamed :
        \A k \in 1..Len(events[r]) :
            events[r][k].type = "completed" =>
                /\ events[r][k].n = Len(results[r])
                /\ FileDeletion(r) => events[r][k].n = Len(req[r].targets)

\* strings to compare the prefix tests on: the targets, and the entries of
\* the policy's own lists (a target equal to an entry), and the empty string
ProbeTargets ==
    TargetUniverse \cup {<<>>}
        \cup {cfg.BlockedTargets[k] : k \in DOMAIN cfg.BlockedTargets}
        \cup {cfg.AllowedTargets[k] : k \in DOMAIN cfg.AllowedTargets}

\* C26: the server's validators and the engine's return the same outcome
\* with the same reason for every request under every policy, their prefix
\* tests and ceiling ranks agreeing on every string; so the engine never
\* rejects what the server accepted, and Execute and Stream accept the same
\* requests.
C26_ValidatorsAgree ==
    /\ (\A r \in Slots : pc[r] = "idle") =>
          /\ \A q \in Requests :
                /\ validateDestructionRequest(q) = validateExecuteRequest(q)
                /\ validateStreamDestructionRequest(q) = validateStreamRequest(q)
                /\ validateExecuteRequest(q) = validateStreamRequest(q)
          /\ \A t \in ProbeTargets :
                /\ s_isBlockedTarget(t) <=> isBlockedTarget(t)
                /\ s_isAllowedTarget(t) <=> isAllowedTarget(t)
          /\ \A ms \in MaxSeverityStrings :
                s_getSeverityLevel(ms) = getSeverityLevel(ms)
    /\ \A r \in Served :
          /\ ~Mentions(resp[r].message, "Execution failed: ")
          /\ IsErr(validateDestructionRequest(req[r])) <=> task[r] = NoTask
          /\ IsErr(validateStreamRequest(req[r])) <=> task[r] = NoTask

\* a request accepted by both layers under a policy with both lists, and
\* run to its return
C26_Witness ==
    \E r \in Served :
        /\ req[r].entry = "execute" /\ Accepted(r) /\ pc[r] = "done"
        /\ cfg.AllowedTargets # <<>> /\ cfg.BlockedTargets # <<>>
        /\ req[r].targets = <<TX, TD>>
        /\ resp[r].kind = "response" /\ resp[r].success

\* the synchronous request of slot r is between its registration and its
\* unregistration
InFlight(r) ==
    /\ req[r].entry = "execute" /\ Accepted(r)
    /\ (Processing(r) \/ pc[r] = "unregister")

\* C27: at every moment the registry holds exactly the synchronous requests
\* in flight: each is found under the id of its own task, and no entry is
\* that of a request rejected, not yet registered or returned.
C27_RegistryExact ==
    \A r \in Slots :
        /\ InFlight(r) => running[task[r].id] = r
        /\ \A t \in TaskIds : running[t] = r => InFlight(r)

\* the accepted file deletions of "/t/x", and those that report it deleted
DeletionsOfTX ==
    {r \in Served : Accepted(r) /\ FileDeletion(r) /\ req[r].targets = <<TX>>}
ReportSuccess == {r \in DeletionsOfTX : results[r] # <<>> /\ results[r][1].success}
AllReturned == \A r \in Slots : pc[r] = "done"

\* C28: of the concurrent file deletions of one existing file at most one
\* reports the target deleted and every other reports a failure for it; and
\* when all have returned and one has reported success, the backup file
\* holds the whole content of the original.
C28_OneWinnerBackupComplete ==
    /\ Cardinality(ReportSuccess) <= 1
    /\ (AllReturned /\ Cardinality(DeletionsOfTX) >= 2) =>
          /\ \A r \in DeletionsOfTX :
                AllSent(r) => Len(results[r]) = 1
          /\ ReportSuccess # {} => fs[TXB] = InitialFs[TX]

\* the part that holds: never two successes for the same file
C28_AtMostOneSuccess == Cardinality(ReportSuccess) <= 1

\* the slots whose call deleted "/t/x", and the bytes each of them deleted
Deleted == {r \in Slots : results[r] # <<>> /\ results[r][1].success}
LatestDeleted == CHOOSE r \in Deleted : \A s \in Deleted : s <= r
\* a call that has not deleted the file (not yet, or it failed) has created
\* the backup file
BackupWrittenOtherwise ==
    \E r \in Slots \ Deleted :
        \E j \in 1..Len(ops[r]) : ops[r][j].op = "create" /\ ops[r][j].ok

\* C30: after successful safe deletions of the same path one after the
\* other, the file written anew in between (and no other attempt having
\* written the backup file), the backup file holds exactly
\* the bytes of the original deleted last, and the bytes of an original
\* deleted earlier are in no file any more.
C30_BackupHoldsLatest ==
    (Deleted # {} /\ ~BackupWrittenOtherwise) =>
        /\ fs[TXB] = File(OpenedData(LatestDeleted, 1))
        /\ \A s \in Deleted :
              OpenedData(s, 1) # OpenedData(LatestDeleted, 1) =>
                  \A p \in FsPaths : fs[p].data # OpenedData(s, 1)

\* two deletions, of two bytes and then of one: the backup holds the one
C30_Witness ==
    /\ Deleted = {1, 2}
    /\ pc[2] = "done"
    /\ OpenedData(1, 1) = InitialFs[TX].data
    /\ OpenedData(2, 1) = NewContent
    /\ fs[TXB] = File(NewContent)

RootBlocked == \E k \in DOMAIN cfg.BlockedTargets : cfg.BlockedTargets[k] = <<"/">>
BeginsWithSlash(t) == t # <<>> /\ t[1] = "/"
NamesAbsolute(r) ==
    \E i \in 1..Len(req[r].targets) : BeginsWithSlash(req[r].targets[i])

C29_WitnessRelative ==
    \E r \in Served :
        /\ RootBlocked /\ Accepted(r) /\ FileDeletion(r)
        /\ req[r].targets = <<TR>>
        /\ pc[r] = "done"
        /\ Len(results[r]) = 1 /\ ~results[r][1].success
        /\ fs = InitialFs

====
